---------------------------- MODULE Spec2Model ----------------------------
(***************************************************************************)
(* The wallet store of cosmos-keys (src/src/cosmos-keystore.ts): wallets   *)
(* encrypted under a password, kept in localStorage under one key per      *)
(* address, with an index of {name, address} pairs under a key of its own. *)
(*                                                                         *)
(* localStorage is a map from key strings to JSON texts.  A JSON text is   *)
(* modelled by its syntax (an object is the sequence of its members in     *)
(* property order, an array the sequence of its items); JSONstringify      *)
(* builds that syntax from a value and JSONparse rebuilds the value, or    *)
(* throws.  The cipher is symbolic: PBKDF2 and AES are injective terms     *)
(* over their arguments; the transit message is the character sequence     *)
(* hex(salt) hex(iv) body that the code builds and takes apart again.      *)
(***************************************************************************)
EXTENDS Integers, Sequences, FiniteSets, TLC

(***************************************************************************)
(* Bounds of the model: how many addresses and names the callers use, and  *)
(* how many calls may crash between their two writes, and how many wallet  *)
(* entries may be corrupt at a time, and how many bytes an entropy         *)
(* function may return, and how many callers run calls at the same time    *)
(* and how many calls each of them makes, and how many values the random   *)
(* source has for a salt and for an iv.                                    *)
(***************************************************************************)
NumAddresses == 2
NumNames == 2
MaxCrashes == 1
MaxCorrupted == 1
MaxEntropyBytes == 33
NumCallers == 2
MaxCallsPerCaller == 2
NumSeeds == 3

(***************************************************************************)
(* The inputs.  Addresses are bech32 account addresses ("cosmos1..."), so  *)
(* a wallet key never is the index key.  Every address has its wallet.     *)
(***************************************************************************)
AddressPool == <<"cosmos1r5v5srda7xfth3hn2s26txvrcrntldjumt8mhl",
                 "cosmos1pt9904aqg739q6p9kgc2v0puqvj6atp0zsj70g",
                 "cosmos1v3z3242hq7xrms35gu722v4nt8uux8nvug5gye">>
PrivateKeyPool == <<"8088c2ed2149c34f6d6533b774da4e1692eb5cb426fdbaef6898eeda489630b7",
                    "a9f1c24315bf0e366660a26c5819b69f242b5d7a293fc5a3dec8341372544be8",
                    "2afc5a66b30e7521d553ec8e6f7244f906df97477248c30c103d7b3f2c671fef">>
PublicKeyPool == <<"02ba66a84cf7839af172a13e7fc9f5e7008cb8bca1585f8f3bafb3039eda3c1fdd",
                   "037a525043e79a9051d58214a9a2a70b657b3d49124dcd0acc4730df5f35d74b32",
                   "0352fdfc072182654f163f5f0f9a621d729566c74d10037c4d7bbb0407d1e2c649">>
NamePool == <<"main", "savings", "cold">>
WalletOf(i) ==
    [cosmosAddress |-> AddressPool[i], privateKey |-> PrivateKeyPool[i],
     publicKey |-> PublicKeyPool[i]]
Addresses == {AddressPool[i] : i \in 1..NumAddresses}
Names == {NamePool[i] : i \in 1..NumNames}
Wallets == {WalletOf(i) : i \in 1..NumAddresses}
Passwords == {"1234567890", "hunter215500"}

(***************************************************************************)
(* Program constants.                                                      *)
(***************************************************************************)
KEY_TAG == "cosmos-wallets"
keySize == 256
iterations == 100
RandomWordBytes == 16
HexPrefixLen == 32

(***************************************************************************)
(* JavaScript values that are not strings, objects or arrays.              *)
(***************************************************************************)
Null == [kind |-> "null"]
Undefined == [kind |-> "undefined"]

(***************************************************************************)
(* The outcome of a call: the store it leaves, whether it threw (and the   *)
(* Error's message), and the value it returned.                            *)
(***************************************************************************)
Return(store, value) == [store |-> store, threw |-> FALSE, error |-> "", value |-> value]
Throw(store, message) == [store |-> store, threw |-> TRUE, error |-> message, value |-> Undefined]

(***************************************************************************)
(* JSON.  JSONstringify of an object lists its members in the order given  *)
(* (JavaScript's property order); of an array, its items' texts in order.  *)
(* JSONparse rebuilds an object from its members, an array from its items, *)
(* a number from its literal, and throws a SyntaxError on any other text.  *)
(***************************************************************************)
JSONstringifyObject(obj, keys) ==
    [kind |-> "object", members |-> [i \in 1..Len(keys) |-> <<keys[i], obj[keys[i]]>>]]
JSONstringifyArray(arr, keys) ==
    [kind |-> "array", items |-> [i \in 1..Len(arr) |-> JSONstringifyObject(arr[i], keys)]]
JSONparseObject(text) ==
    [k \in {text.members[i][1] : i \in 1..Len(text.members)} |->
        text.members[CHOOSE i \in 1..Len(text.members) :
            /\ text.members[i][1] = k
            /\ \A j \in 1..Len(text.members) : text.members[j][1] = k => j <= i][2]]
JSONparse(text) ==
    CASE text.kind = "object" -> Return(<<>>, JSONparseObject(text))
      [] text.kind = "array" ->
            Return(<<>>, [i \in 1..Len(text.items) |-> JSONparseObject(text.items[i])])
      [] text.kind = "number" -> Return(<<>>, [number |-> text.literal])
      [] OTHER -> Throw(<<>>, "SyntaxError")
WalletKeys == <<"cosmosAddress", "privateKey", "publicKey">>
StoredWalletKeys == <<"name", "address", "wallet">>
IndexEntryKeys == <<"name", "address">>
EmptyArrayText == [kind |-> "array", items |-> <<>>]

(***************************************************************************)
(* localStorage: a map from the keys present to their texts.               *)
(***************************************************************************)
getItem(store, key) == IF key \in DOMAIN store THEN store[key] ELSE Null
setItem(store, key, text) ==
    [k \in DOMAIN store \cup {key} |-> IF k = key THEN text ELSE store[k]]
removeItem(store, key) == [k \in DOMAIN store \ {key} |-> store[k]]
IndexKey == KEY_TAG \o "-index"
WalletKey(address) == KEY_TAG \o "-" \o address

(***************************************************************************)
(* Hex encoding of a byte sequence (WordArray.toString) and its inverse    *)
(* (CryptoJS.enc.Hex.parse), two characters a byte.                        *)
(***************************************************************************)
HexDigit == <<"0", "1", "2", "3", "4", "5", "6", "7",
              "8", "9", "a", "b", "c", "d", "e", "f">>
HexByte == [b \in 0..255 |-> HexDigit[(b \div 16) + 1] \o HexDigit[(b % 16) + 1]]
HexByteValue == [h \in {HexByte[b] : b \in 0..255} |-> CHOOSE b \in 0..255 : HexByte[b] = h]
RECURSIVE HexStringify(_)
HexStringify(bytes) ==
    IF bytes = <<>> THEN "" ELSE HexByte[Head(bytes)] \o HexStringify(Tail(bytes))
HexParse(hexStr) ==
    [i \in 1..(Len(hexStr) \div 2) |-> HexByteValue[SubSeq(hexStr, 2 * i - 1, 2 * i)]]

(***************************************************************************)
(* The transit message is a string: the text of its first characters (the  *)
(* two hex fields) followed by the base64 rendering of the cipher text,    *)
(* which the model keeps as the symbolic cipher term.  Concat appends the  *)
(* rendering of a term to a text; substr and substring are JavaScript's,   *)
(* on such a string (start counts from 0).                                 *)
(***************************************************************************)
Min(a, b) == IF a <= b THEN a ELSE b
Concat(text, encrypted) == [text |-> text, encrypted |-> encrypted]
substr(s, start, length) == SubSeq(s.text, start + 1, Min(start + length, Len(s.text)))
substring(s, start) ==
    [text |-> SubSeq(s.text, Min(start, Len(s.text)) + 1, Len(s.text)), encrypted |-> s.encrypted]

(***************************************************************************)
(* The random source: each WordArray.random(128 / 8) returns 16 bytes.     *)
(* One encrypt calls it twice (salt, then iv); the model draws the pair    *)
(* from a seed.                                                            *)
(***************************************************************************)
RandomSeeds == {1}
WordArrayRandom(seed, call) ==
    [i \in 1..RandomWordBytes |-> (seed * (16 * i + 7 + 9 * call)) % 256]
RandomSource == {<<WordArrayRandom(seed, 0), WordArrayRandom(seed, 1)>> : seed \in RandomSeeds}

(***************************************************************************)
(* The cipher, symbolically.  PBKDF2 is an injective term over password,   *)
(* salt and its configuration.  AESencrypt is a term over plaintext, key   *)
(* and iv, rendered (base64) as the tail of the transit message.           *)
(* AESdecrypt with the key and iv of the term gives back the plaintext.    *)
(*                                                                         *)
(* With any other key, CBC with Pkcs7 has no integrity check: the block    *)
(* cipher yields pseudo-random bytes, Pkcs7.unpad drops as many of them as *)
(* the last byte says without validating them, and toString(Utf8) either   *)
(* throws "Malformed UTF-8 data" or returns what is left as text.  Which   *)
(* it is is fixed by the key, the iv and the cipher text.                  *)
(* WrongKeyPlaintext tabulates it for the inputs of this model as          *)
(* crypto-js 3 computes it (PBKDF2 over HMAC-SHA1, AES-256-CBC), with the  *)
(* salt and iv of seed 1 and JSON.stringify listing cosmosAddress,         *)
(* privateKey, publicKey:                                                  *)
(*   wallet 1 under "1234567890", decrypted with "hunter215500": the text  *)
(*     "3" (one byte is left), which JSON.parse accepts;                   *)
(*   wallet 2 under "1234567890", decrypted with "hunter215500": the empty *)
(*     text (no byte is left), which JSON.parse rejects;                   *)
(*   wallet 1 under "hunter215500", decrypted with "hunter215500" and the *)
(*     salt with its last bit flipped: the empty text;                     *)
(*   the right key with the last bit of the iv flipped: CBC xors the       *)
(*     difference into the first block, {"cosmosAddress" of 16 bytes, and  *)
(*     its closing quote becomes #, a text JSON.parse rejects (the text    *)
(*     goes on with the rest of the wallet, left out here);                *)
(*   every other pair: malformed UTF-8, the outcome of almost all keys.    *)
(***************************************************************************)
PBKDF2(password, salt) ==
    [password |-> password, salt |-> salt, keySize |-> keySize \div 32, iterations |-> iterations]
AESencrypt(message, key, iv) == [plaintext |-> message, key |-> key, iv |-> iv]
FlipLastBit(bytes) ==
    [i \in 1..Len(bytes) |-> IF i = Len(bytes)
                             THEN (IF bytes[i] % 2 = 0 THEN bytes[i] + 1 ELSE bytes[i] - 1)
                             ELSE bytes[i]]
WrongKeyPlaintext(encrypted, key, iv) ==
    LET under == PBKDF2("1234567890", WordArrayRandom(1, 0))
        with == PBKDF2("hunter215500", WordArrayRandom(1, 0))
        tabulated == /\ encrypted.key = under /\ encrypted.iv = WordArrayRandom(1, 1)
                     /\ key = with /\ iv = WordArrayRandom(1, 1)
        saltFlipped == /\ encrypted.key = with /\ encrypted.iv = WordArrayRandom(1, 1)
                       /\ key = PBKDF2("hunter215500", FlipLastBit(WordArrayRandom(1, 0)))
                       /\ iv = WordArrayRandom(1, 1)
        ivFlipped == /\ encrypted.key = key /\ encrypted.iv = WordArrayRandom(1, 1)
                     /\ iv = FlipLastBit(WordArrayRandom(1, 1))
    IN  CASE tabulated /\ encrypted.plaintext = JSONstringifyObject(WalletOf(1), WalletKeys) ->
                 Return(<<>>, [kind |-> "number", literal |-> "3"])
          [] tabulated /\ encrypted.plaintext = JSONstringifyObject(WalletOf(2), WalletKeys) ->
                 Return(<<>>, [kind |-> "text", chars |-> ""])
          [] saltFlipped /\ encrypted.plaintext = JSONstringifyObject(WalletOf(1), WalletKeys) ->
                 Return(<<>>, [kind |-> "text", chars |-> ""])
          [] ivFlipped ->
                 Return(<<>>, [kind |-> "text", chars |-> "{\"cosmosAddress#:"])
          [] OTHER -> Throw(<<>>, "Malformed UTF-8 data")
AESdecryptToUtf8(encrypted, key, iv) ==
    IF encrypted.text = "" /\ encrypted.encrypted.key = key /\ encrypted.encrypted.iv = iv
    THEN Return(<<>>, encrypted.encrypted.plaintext)
    ELSE WrongKeyPlaintext(encrypted.encrypted, key, iv)

(***************************************************************************)
(* An encrypt that puts the iv in front of the salt.                       *)
(***************************************************************************)
encryptIvFirst(message, password, random) ==
    LET salt == random[1]
        key == PBKDF2(password, salt)
        iv == random[2]
        encrypted == AESencrypt(message, key, iv)
    IN  Concat(HexStringify(iv) \o HexStringify(salt), encrypted)

encrypt(message, password, random) ==
    LET salt == random[1]
        key == PBKDF2(password, salt)
        iv == random[2]
        encrypted == AESencrypt(message, key, iv)
    IN  Concat(HexStringify(salt) \o HexStringify(iv), encrypted)

(***************************************************************************)
(* A decrypt that reads the iv from the salt's 32 characters: the fault    *)
(* the round trip must expose.                                             *)
(***************************************************************************)
decryptIvFromSaltField(transitMessage, password) ==
    LET salt == HexParse(substr(transitMessage, 0, HexPrefixLen))
        iv == HexParse(substr(transitMessage, 0, HexPrefixLen))
        encrypted == substring(transitMessage, 2 * HexPrefixLen)
        key == PBKDF2(password, salt)
    IN  AESdecryptToUtf8(encrypted, key, iv)

decrypt(transitMessage, password) ==
    LET salt == HexParse(substr(transitMessage, 0, HexPrefixLen))
        iv == HexParse(substr(transitMessage, HexPrefixLen, HexPrefixLen))
        encrypted == substring(transitMessage, 2 * HexPrefixLen)
        key == PBKDF2(password, salt)
    IN  AESdecryptToUtf8(encrypted, key, iv)

(***************************************************************************)
(* The private helpers of the store.                                       *)
(***************************************************************************)
Truthy(value) == value # Null /\ value # Undefined

getWalletIndex(store) ==
    LET item == getItem(store, IndexKey)
    IN  JSONparse(IF item # Null THEN item ELSE EmptyArrayText).value

loadFromStorage(store, address) ==
    LET storedKey == getItem(store, WalletKey(address))
    IN  IF storedKey = Null THEN Null ELSE JSONparse(storedKey).value

(***************************************************************************)
(* An addToIndex that appends without looking for the name.                *)
(***************************************************************************)
addToIndexUnchecked(store, name, address) ==
    LET storedIndex == getWalletIndex(store)
    IN  Return(setItem(store, IndexKey,
                       JSONstringifyArray(Append(storedIndex, [name |-> name, address |-> address]),
                                          IndexEntryKeys)),
               Undefined)

addToIndex(store, name, address) ==
    LET storedIndex == getWalletIndex(store)
    IN  IF \E i \in 1..Len(storedIndex) : name = storedIndex[i].name
        THEN Throw(store, "Key with that name already exists")
        ELSE Return(setItem(store, IndexKey,
                            JSONstringifyArray(Append(storedIndex, [name |-> name, address |-> address]),
                                               IndexEntryKeys)),
                    Undefined)

(***************************************************************************)
(* A removeFromIndex that writes back an empty index.                      *)
(***************************************************************************)
removeFromIndexClearing(store, address) ==
    Return(setItem(store, IndexKey, JSONstringifyArray(<<>>, IndexEntryKeys)), Undefined)

removeFromIndex(store, address) ==
    LET storedIndex == getWalletIndex(store)
        updatedIndex == SelectSeq(storedIndex, LAMBDA entry : entry.address # address)
    IN  Return(setItem(store, IndexKey, JSONstringifyArray(updatedIndex, IndexEntryKeys)), Undefined)

(***************************************************************************)
(* An addToStorage that writes the wallet entry before it updates the      *)
(* index, so that a name collision is found after the first write.         *)
(***************************************************************************)
addToStorageEntryFirst(store, name, address, ciphertext) ==
    LET storedWallet == [name |-> name, address |-> address, wallet |-> ciphertext]
        entered == setItem(store, WalletKey(address),
                           JSONstringifyObject(storedWallet, StoredWalletKeys))
        indexed == addToIndex(entered, name, address)
    IN  IF indexed.threw THEN Throw(entered, indexed.error) ELSE indexed

addToStorage(store, name, address, ciphertext) ==
    LET indexed == addToIndex(store, name, address)
        storedWallet == [name |-> name, address |-> address, wallet |-> ciphertext]
    IN  IF indexed.threw THEN indexed
        ELSE Return(setItem(indexed.store, WalletKey(address),
                            JSONstringifyObject(storedWallet, StoredWalletKeys)),
                    Undefined)

(***************************************************************************)
(* A removeFromStorage that removes the wallet entry and leaves the index. *)
(***************************************************************************)
removeFromStorageEntryOnly(store, address) ==
    Return(removeItem(store, WalletKey(address)), Undefined)

removeFromStorage(store, address) ==
    Return(removeItem(removeFromIndex(store, address).store, WalletKey(address)), Undefined)

(***************************************************************************)
(* The exported operations.  Each gives the outcome of one call on a       *)
(* store; storeWallet also takes what the random source gives its encrypt. *)
(***************************************************************************)
(***************************************************************************)
(* A getStoredWallet that lets the error of decrypt or JSON.parse through. *)
(***************************************************************************)
getStoredWalletRethrowing(store, address, password) ==
    LET storedWallet == loadFromStorage(store, address)
    IN  IF ~Truthy(storedWallet)
        THEN Throw(store, "No wallet found for requested address")
        ELSE LET decrypted == decrypt(storedWallet.wallet, password)
             IN  IF decrypted.threw THEN Throw(store, decrypted.error)
                 ELSE IF JSONparse(decrypted.value).threw
                      THEN Throw(store, JSONparse(decrypted.value).error)
                      ELSE Return(store, JSONparse(decrypted.value).value)

getStoredWallet(store, address, password) ==
    LET storedWallet == loadFromStorage(store, address)
    IN  IF ~Truthy(storedWallet)
        THEN Throw(store, "No wallet found for requested address")
        ELSE LET decrypted == decrypt(storedWallet.wallet, password)
             IN  IF decrypted.threw \/ JSONparse(decrypted.value).threw
                 THEN Throw(store, "Incorrect password")
                 ELSE Return(store, JSONparse(decrypted.value).value)

(***************************************************************************)
(* A storeWallet that hands the serialized wallet to addToStorage as it    *)
(* is.                                                                     *)
(***************************************************************************)
storeWalletUnencrypted(store, wallet, name, password, random) ==
    LET storedWallet == loadFromStorage(store, wallet.cosmosAddress)
    IN  IF Truthy(storedWallet)
        THEN Throw(store, "The wallet was already stored. Can't store the same wallet again.")
        ELSE addToStorage(store, name, wallet.cosmosAddress,
                          JSONstringifyObject(wallet, WalletKeys))

(***************************************************************************)
(* A storeWallet that does not look for an entry of the address first.     *)
(***************************************************************************)
storeWalletUnguarded(store, wallet, name, password, random) ==
    LET ciphertext == encrypt(JSONstringifyObject(wallet, WalletKeys), password, random)
    IN  addToStorage(store, name, wallet.cosmosAddress, ciphertext)

storeWallet(store, wallet, name, password, random) ==
    LET storedWallet == loadFromStorage(store, wallet.cosmosAddress)
    IN  IF Truthy(storedWallet)
        THEN Throw(store, "The wallet was already stored. Can't store the same wallet again.")
        ELSE LET ciphertext == encrypt(JSONstringifyObject(wallet, WalletKeys), password, random)
             IN  addToStorage(store, name, wallet.cosmosAddress, ciphertext)

testPassword(store, address, password) ==
    LET storedWallet == loadFromStorage(store, address)
    IN  IF ~Truthy(storedWallet)
        THEN Throw(store, "No wallet found for request address")
        ELSE LET decrypted == decrypt(storedWallet.wallet, password)
             IN  IF decrypted.threw \/ JSONparse(decrypted.value).threw
                 THEN Throw(store, "Password for wallet is incorrect")
                 ELSE Return(store, Undefined)

(***************************************************************************)
(* A removeWallet that does not test the password.                         *)
(***************************************************************************)
removeWalletUntested(store, address, password) ==
    LET storedWallet == loadFromStorage(store, address)
    IN  IF ~Truthy(storedWallet)
        THEN Throw(store, "No wallet found for requested address")
        ELSE removeFromStorage(store, address)

(***************************************************************************)
(* A removeWallet that takes a missing entry for already removed and goes  *)
(* on to removeFromStorage instead of throwing.                            *)
(***************************************************************************)
removeWalletIdempotent(store, address, password) ==
    LET storedWallet == loadFromStorage(store, address)
    IN  IF ~Truthy(storedWallet)
        THEN removeFromStorage(store, address)
        ELSE IF testPassword(store, address, password).threw
             THEN testPassword(store, address, password)
             ELSE removeFromStorage(store, address)

removeWallet(store, address, password) ==
    LET storedWallet == loadFromStorage(store, address)
    IN  IF ~Truthy(storedWallet)
        THEN Throw(store, "No wallet found for requested address")
        ELSE IF testPassword(store, address, password).threw
             THEN testPassword(store, address, password)
             ELSE removeFromStorage(store, address)

(***************************************************************************)
(* The errors by kind: getStoredWallet/removeWallet and testPassword word  *)
(* the same two failures differently.                                      *)
(***************************************************************************)
NotFoundErrors == {"No wallet found for requested address", "No wallet found for request address"}
IncorrectPasswordErrors == {"Incorrect password", "Password for wallet is incorrect"}
DuplicateAddressError == "The wallet was already stored. Can't store the same wallet again."
DuplicateNameError == "Key with that name already exists"

(***************************************************************************)
(* The state: the store, the last call with its outcome, and for every     *)
(* address the wallet, name and password of the storeWallet call that      *)
(* wrote its present entry (a history variable; the code keeps no such     *)
(* record), and the number of calls that crashed.  When calls of several   *)
(* callers interleave, calls holds for every caller its call in flight:    *)
(* where the call stands, and what it has read from the store.             *)
(***************************************************************************)
VARIABLES localStorage, last, written, crashes, calls

vars == <<localStorage, last, written, crashes, calls>>

NoCall == [op |-> "none"]
NotWritten == [present |-> FALSE]
Outcome(r) == [threw |-> r.threw, error |-> r.error, value |-> r.value]
Callers == 1..NumCallers
Idle == [pc |-> "idle", call |-> NoCall, view |-> <<>>, crashed |-> FALSE,
         outcome |-> Outcome(Return(<<>>, Undefined)), made |-> 0]

Init ==
    /\ localStorage = <<>>
    /\ last = [call |-> NoCall, crashed |-> FALSE, outcome |-> Outcome(Return(<<>>, Undefined))]
    /\ written = [a \in Addresses |-> NotWritten]
    /\ crashes = 0
    /\ calls = [c \in Callers |-> Idle]

StoreWallet(wallet, name, password) ==
    \E random \in RandomSource :
        \E r \in {storeWallet(localStorage, wallet, name, password, random)} :
            /\ localStorage' = r.store
            /\ last' = [call |-> [op |-> "storeWallet", wallet |-> wallet,
                                  address |-> wallet.cosmosAddress, name |-> name,
                                  password |-> password],
                        crashed |-> FALSE, outcome |-> Outcome(r)]
            /\ written' = IF r.threw THEN written
                          ELSE [written EXCEPT ![wallet.cosmosAddress] =
                                   [present |-> TRUE, wallet |-> wallet, name |-> name,
                                    password |-> password]]
            /\ UNCHANGED <<crashes, calls>>

GetStoredWallet(address, password) ==
    \E r \in {getStoredWallet(localStorage, address, password)} :
        /\ localStorage' = r.store
        /\ last' = [call |-> [op |-> "getStoredWallet", address |-> address, password |-> password],
                    crashed |-> FALSE, outcome |-> Outcome(r)]
        /\ UNCHANGED <<written, crashes, calls>>

TestPassword(address, password) ==
    \E r \in {testPassword(localStorage, address, password)} :
        /\ localStorage' = r.store
        /\ last' = [call |-> [op |-> "testPassword", address |-> address, password |-> password],
                    crashed |-> FALSE, outcome |-> Outcome(r)]
        /\ UNCHANGED <<written, crashes, calls>>

RemoveWallet(address, password) ==
    \E r \in {removeWallet(localStorage, address, password)} :
        /\ localStorage' = r.store
        /\ last' = [call |-> [op |-> "removeWallet", address |-> address, password |-> password],
                    crashed |-> FALSE, outcome |-> Outcome(r)]
        /\ written' = IF r.threw THEN written ELSE [written EXCEPT ![address] = NotWritten]
        /\ UNCHANGED <<crashes, calls>>

(***************************************************************************)
(* A getWalletIndex call that creates the index key when it finds none.    *)
(***************************************************************************)
GetWalletIndexInitialising ==
    /\ last' = [call |-> [op |-> "getWalletIndex"], crashed |-> FALSE,
                outcome |-> Outcome(Return(localStorage, getWalletIndex(localStorage)))]
    /\ localStorage' = IF getItem(localStorage, IndexKey) = Null
                       THEN setItem(localStorage, IndexKey, EmptyArrayText)
                       ELSE localStorage
    /\ UNCHANGED <<written, crashes, calls>>

GetWalletIndex ==
    /\ last' = [call |-> [op |-> "getWalletIndex"], crashed |-> FALSE,
                outcome |-> Outcome(Return(localStorage, getWalletIndex(localStorage)))]
    /\ UNCHANGED <<localStorage, written, crashes, calls>>

Next ==
    \/ \E wallet \in Wallets, name \in Names, password \in Passwords :
           StoreWallet(wallet, name, password)
    \/ \E address \in Addresses, password \in Passwords : GetStoredWallet(address, password)
    \/ \E address \in Addresses, password \in Passwords : TestPassword(address, password)
    \/ \E address \in Addresses, password \in Passwords : RemoveWallet(address, password)
    \/ GetWalletIndex

Spec == Init /\ [][Next]_vars

(***************************************************************************)
(* A crash between the two writes of a call: storeWallet has written the   *)
(* index and not yet the wallet entry; removeWallet has rewritten the      *)
(* index and not yet removed the wallet entry.  The caller sees no         *)
(* outcome, and later calls go on from the store as the crash left it.     *)
(***************************************************************************)
NoOutcome == Outcome(Return(<<>>, Undefined))

(***************************************************************************)
(* A storeWallet that stops after writing the wallet entry, as it would if *)
(* addToStorage wrote the entry first and the index second.                *)
(***************************************************************************)
StoreWalletCrashEntryFirst(wallet, name, password) ==
    /\ crashes < MaxCrashes
    /\ ~Truthy(loadFromStorage(localStorage, wallet.cosmosAddress))
    /\ ~addToIndex(localStorage, name, wallet.cosmosAddress).threw
    /\ \E random \in RandomSource :
           localStorage' =
               setItem(localStorage, WalletKey(wallet.cosmosAddress),
                       JSONstringifyObject(
                           [name |-> name, address |-> wallet.cosmosAddress,
                            wallet |-> encrypt(JSONstringifyObject(wallet, WalletKeys),
                                               password, random)],
                           StoredWalletKeys))
    /\ last' = [call |-> [op |-> "storeWallet", wallet |-> wallet,
                          address |-> wallet.cosmosAddress, name |-> name,
                          password |-> password],
                crashed |-> TRUE, outcome |-> NoOutcome]
    /\ crashes' = crashes + 1
    /\ UNCHANGED <<written, calls>>

StoreWalletCrash(wallet, name, password) ==
    /\ crashes < MaxCrashes
    /\ ~Truthy(loadFromStorage(localStorage, wallet.cosmosAddress))
    /\ ~addToIndex(localStorage, name, wallet.cosmosAddress).threw
    /\ localStorage' = addToIndex(localStorage, name, wallet.cosmosAddress).store
    /\ last' = [call |-> [op |-> "storeWallet", wallet |-> wallet,
                          address |-> wallet.cosmosAddress, name |-> name,
                          password |-> password],
                crashed |-> TRUE, outcome |-> NoOutcome]
    /\ crashes' = crashes + 1
    /\ UNCHANGED <<written, calls>>

RemoveWalletCrash(address, password) ==
    /\ crashes < MaxCrashes
    /\ Truthy(loadFromStorage(localStorage, address))
    /\ ~testPassword(localStorage, address, password).threw
    /\ localStorage' = removeFromIndex(localStorage, address).store
    /\ last' = [call |-> [op |-> "removeWallet", address |-> address, password |-> password],
                crashed |-> TRUE, outcome |-> NoOutcome]
    /\ crashes' = crashes + 1
    /\ UNCHANGED <<written, calls>>

NextCrash ==
    \/ Next
    \/ \E wallet \in Wallets, name \in Names, password \in Passwords :
           StoreWalletCrash(wallet, name, password)
    \/ \E address \in Addresses, password \in Passwords : RemoveWalletCrash(address, password)

SpecCrash == Init /\ [][NextCrash]_vars

(***************************************************************************)
(* What the properties speak of.                                           *)
(***************************************************************************)
HasWalletEntry(store, address) == getItem(store, WalletKey(address)) # Null
IndexPositions(store, address) ==
    {i \in 1..Len(getWalletIndex(store)) : getWalletIndex(store)[i].address = address}
IndexNames(store) == {getWalletIndex(store)[i].name : i \in 1..Len(getWalletIndex(store))}
Completed(op) == last'.call.op = op /\ ~last'.crashed
CompletedRead ==
    /\ last'.call.op \in {"getStoredWallet", "testPassword", "removeWallet"}
    /\ ~last'.crashed

(***************************************************************************)
(* C1.  Round trip: while the entry that a successful storeWallet(w, n, p) *)
(* wrote for w.cosmosAddress is there, every getStoredWallet for that      *)
(* address with the same password p returns a wallet equal to w, whatever  *)
(* was called in between on other addresses.                               *)
(***************************************************************************)
RoundTrip ==
    (/\ last.call.op = "getStoredWallet"
     /\ written[last.call.address].present
     /\ written[last.call.address].password = last.call.password)
        => /\ ~last.outcome.threw
           /\ last.outcome.value = written[last.call.address].wallet
           /\ last.outcome.value.privateKey = written[last.call.address].wallet.privateKey
           /\ last.outcome.value.publicKey = written[last.call.address].wallet.publicKey
           /\ last.outcome.value.cosmosAddress = last.call.address

(* The wallet stored first is read back after a second wallet was stored. *)
RoundTripWitness ==
    /\ last.call.op = "getStoredWallet"
    /\ written[last.call.address].present
    /\ written[last.call.address].password = last.call.password
    /\ ~last.outcome.threw
    /\ last.outcome.value = written[last.call.address].wallet
    /\ Len(getWalletIndex(localStorage)) = 2
    /\ getWalletIndex(localStorage)[1].address = last.call.address
    /\ \E other \in Addresses \ {last.call.address} : written[other].present

(***************************************************************************)
(* C2.  Every completed storeWallet for an address that has a wallet entry *)
(* throws the duplicate-address error, whatever its name and password      *)
(* (new name or name already in the index), and leaves every store key,    *)
(* the wallet entry and the index among them, as it was.                   *)
(***************************************************************************)
DuplicateAddressRejected ==
    [][(Completed("storeWallet") /\ HasWalletEntry(localStorage, last'.call.address))
          => /\ last'.outcome.threw
             /\ last'.outcome.error = DuplicateAddressError
             /\ localStorage' = localStorage]_vars

(* A second storeWallet for a stored address, under a name the index does *)
(* not hold and another password, has failed with duplicate-address.      *)
DuplicateAddressWitness ==
    /\ last.call.op = "storeWallet"
    /\ ~last.crashed
    /\ last.outcome.threw
    /\ last.outcome.error = DuplicateAddressError
    /\ HasWalletEntry(localStorage, last.call.address)
    /\ last.call.name \notin IndexNames(localStorage)
    /\ written[last.call.address].present
    /\ written[last.call.address].password # last.call.password

(***************************************************************************)
(* C3.  Every completed storeWallet for an address without a wallet entry, *)
(* under a name the index already holds, throws the duplicate-name error   *)
(* and writes nothing: the store, with no entry for the address and with   *)
(* its index, is as it was.                                                *)
(***************************************************************************)
DuplicateNameRejected ==
    [][(/\ Completed("storeWallet")
        /\ ~HasWalletEntry(localStorage, last'.call.address)
        /\ last'.call.name \in IndexNames(localStorage))
          => /\ last'.outcome.threw
             /\ last'.outcome.error = DuplicateNameError
             /\ localStorage' = localStorage
             /\ ~HasWalletEntry(localStorage', last'.call.address)
             /\ getWalletIndex(localStorage') = getWalletIndex(localStorage)]_vars

(* A storeWallet for a new address has failed with duplicate-name. *)
DuplicateNameWitness ==
    /\ last.call.op = "storeWallet"
    /\ ~last.crashed
    /\ last.outcome.threw
    /\ last.outcome.error = DuplicateNameError
    /\ ~HasWalletEntry(localStorage, last.call.address)
    /\ last.call.name \in IndexNames(localStorage)
    /\ IndexPositions(localStorage, last.call.address) = {}

(***************************************************************************)
(* C4.  Every completed getStoredWallet, testPassword and removeWallet for *)
(* an address that has a wallet entry, called with a password other than   *)
(* the one the entry was stored with, throws the incorrect-password error  *)
(* and leaves the store as it was: no wallet is returned, nothing is       *)
(* deleted.  The code does not keep this: AES-CBC with Pkcs7 has no        *)
(* integrity check, and what a wrong key leaves can be text that           *)
(* JSON.parse accepts.                                                     *)
(***************************************************************************)
WrongPasswordRejected ==
    [][(/\ CompletedRead
        /\ HasWalletEntry(localStorage, last'.call.address)
        /\ written[last'.call.address].present
        /\ written[last'.call.address].password # last'.call.password)
          => /\ last'.outcome.threw
             /\ last'.outcome.error \in IncorrectPasswordErrors
             /\ localStorage' = localStorage]_vars

(* getStoredWallet has returned a value under a password the wallet was *)
(* not stored with.                                                     *)
WrongPasswordAccepted ==
    /\ last.call.op = "getStoredWallet"
    /\ written[last.call.address].present
    /\ written[last.call.address].password # last.call.password
    /\ ~last.outcome.threw
    /\ last.outcome.value # written[last.call.address].wallet

(***************************************************************************)
(* C5.  Every completed getStoredWallet, testPassword and removeWallet for *)
(* an address that has no wallet entry throws the not-found error,         *)
(* whatever the password and whatever the index holds for the address (a   *)
(* crashed storeWallet leaves an index entry without a wallet entry), and  *)
(* leaves every store key, the index among them, as it was.                *)
(***************************************************************************)
MissingEntryNotFound ==
    [][(CompletedRead /\ ~HasWalletEntry(localStorage, last'.call.address))
          => /\ last'.outcome.threw
             /\ last'.outcome.error \in NotFoundErrors
             /\ localStorage' = localStorage
             /\ getWalletIndex(localStorage') = getWalletIndex(localStorage)]_vars

(* removeWallet has failed with not-found for an address the index lists. *)
MissingEntryWitness ==
    /\ last.call.op = "removeWallet"
    /\ ~last.crashed
    /\ last.outcome.threw
    /\ last.outcome.error \in NotFoundErrors
    /\ ~HasWalletEntry(localStorage, last.call.address)
    /\ IndexPositions(localStorage, last.call.address) # {}

IndexNamesUnique ==
    \A i, j \in 1..Len(getWalletIndex(localStorage)) :
        getWalletIndex(localStorage)[i].name = getWalletIndex(localStorage)[j].name => i = j

(* The index lists two wallets and the last call, a storeWallet under one *)
(* of their names, has failed.                                            *)
IndexNamesUniqueWitness ==
    /\ Len(getWalletIndex(localStorage)) = 2
    /\ last.call.op = "storeWallet"
    /\ last.outcome.threw
    /\ last.call.name \in IndexNames(localStorage)

(***************************************************************************)
(* C8.  After every completed call of a crash-free sequential run from the *)
(* empty store, an address has a wallet entry exactly if the index holds   *)
(* exactly one entry with that address, and then the name of that index    *)
(* entry is the name recorded in the wallet entry; an address without      *)
(* wallet entry has no index entry.                                        *)
(***************************************************************************)
IndexAgreesWithEntries ==
    /\ \A address \in Addresses :
           /\ HasWalletEntry(localStorage, address)
                  <=> Cardinality(IndexPositions(localStorage, address)) = 1
           /\ HasWalletEntry(localStorage, address) =>
                  /\ loadFromStorage(localStorage, address).address = address
                  /\ \A i \in IndexPositions(localStorage, address) :
                         getWalletIndex(localStorage)[i].name =
                             loadFromStorage(localStorage, address).name
           /\ ~HasWalletEntry(localStorage, address) => IndexPositions(localStorage, address) = {}
    /\ \A i \in 1..Len(getWalletIndex(localStorage)) :
           getWalletIndex(localStorage)[i].address \in Addresses

(* A wallet has been removed: its address is neither stored nor listed, *)
(* the other address is stored and listed once under its name.          *)
IndexAgreesWitness ==
    /\ last.call.op = "removeWallet"
    /\ ~last.outcome.threw
    /\ ~HasWalletEntry(localStorage, last.call.address)
    /\ IndexPositions(localStorage, last.call.address) = {}
    /\ \E other \in Addresses :
           /\ HasWalletEntry(localStorage, other)
           /\ IndexPositions(localStorage, other) = {1}
           /\ getWalletIndex(localStorage)[1].name = loadFromStorage(localStorage, other).name

(***************************************************************************)
(* C9.  No step changes the value of a wallet entry that is there: name    *)
(* and ciphertext stay.  A step after which the entry is absent is a       *)
(* completed, successful removeWallet for that address, whose password     *)
(* passed testPassword on the store as it was.                             *)
(***************************************************************************)
NoOverwrite ==
    [][\A address \in Addresses :
          HasWalletEntry(localStorage, address) =>
              \/ getItem(localStorage', WalletKey(address)) =
                     getItem(localStorage, WalletKey(address))
              \/ /\ ~HasWalletEntry(localStorage', address)
                 /\ Completed("removeWallet")
                 /\ last'.call.address = address
                 /\ ~last'.outcome.threw
                 /\ ~testPassword(localStorage, address, last'.call.password).threw]_vars

(* A removeWallet whose password failed the check has left the entry as  *)
(* storeWallet wrote it.                                                 *)
NoOverwriteWitness ==
    /\ last.call.op = "removeWallet"
    /\ last.outcome.threw
    /\ last.outcome.error \in IncorrectPasswordErrors
    /\ written[last.call.address].present
    /\ \E random \in RandomSource :
           getItem(localStorage, WalletKey(last.call.address)) =
               JSONstringifyObject(
                   [name |-> written[last.call.address].name,
                    address |-> last.call.address,
                    wallet |-> encrypt(JSONstringifyObject(written[last.call.address].wallet,
                                                           WalletKeys),
                                       written[last.call.address].password, random)],
                   StoredWalletKeys)

(***************************************************************************)
(* C10.  In every reachable state the store holds no plaintext key         *)
(* material: the value of each wallet key is an object of exactly name,    *)
(* address and wallet, where wallet is a transit message that encrypt      *)
(* gives for a serialized wallet of that address; the value of the index   *)
(* key is an array of objects of exactly name and address; there is no     *)
(* other key; and no value, and no member of a value, is a serialized      *)
(* wallet or a private key.                                                *)
(***************************************************************************)
Ciphertexts(address) ==
    {encrypt(JSONstringifyObject(w, WalletKeys), p, random) :
        w \in {v \in Wallets : v.cosmosAddress = address}, p \in Passwords,
        random \in RandomSource}

MemberKeys(text) == [i \in 1..Len(text.members) |-> text.members[i][1]]

OnlyCiphertextStored ==
    /\ DOMAIN localStorage \subseteq {IndexKey} \cup {WalletKey(address) : address \in Addresses}
    /\ \A address \in Addresses :
           HasWalletEntry(localStorage, address) =>
               LET text == getItem(localStorage, WalletKey(address))
               IN  /\ text.kind = "object"
                   /\ MemberKeys(text) = StoredWalletKeys
                   /\ text.members[1][2] \in Names
                   /\ text.members[2][2] = address
                   /\ text.members[3][2] \in Ciphertexts(address)
                   /\ Len(text.members[3][2].text) = 2 * HexPrefixLen
    /\ IndexKey \in DOMAIN localStorage =>
           LET text == getItem(localStorage, IndexKey)
           IN  /\ text.kind = "array"
               /\ \A i \in 1..Len(text.items) :
                      /\ text.items[i].kind = "object"
                      /\ MemberKeys(text.items[i]) = IndexEntryKeys
                      /\ text.items[i].members[1][2] \in Names
                      /\ text.items[i].members[2][2] \in Addresses
    /\ \A key \in DOMAIN localStorage, w \in Wallets :
           localStorage[key] # JSONstringifyObject(w, WalletKeys)

(* Two wallets are stored, under different passwords, and listed. *)
OnlyCiphertextWitness ==
    /\ \A address \in {AddressPool[1], AddressPool[2]} : HasWalletEntry(localStorage, address)
    /\ written[AddressPool[1]].present
    /\ written[AddressPool[2]].present
    /\ written[AddressPool[1]].password # written[AddressPool[2]].password
    /\ Len(getWalletIndex(localStorage)) = 2

(***************************************************************************)
(* C11.  Every completed getWalletIndex, testPassword and getStoredWallet, *)
(* returning or throwing, leaves every store key with the value it had     *)
(* (no key appears, none disappears).  getWalletIndex returns the sequence *)
(* of {name, address} pairs that the value of the index key lists, in its  *)
(* order, and the empty sequence when the store has no index key.          *)
(***************************************************************************)
StoredIndexSequence ==
    IF IndexKey \in DOMAIN localStorage
    THEN [i \in 1..Len(localStorage[IndexKey].items) |->
             [name |-> localStorage[IndexKey].items[i].members[1][2],
              address |-> localStorage[IndexKey].items[i].members[2][2]]]
    ELSE <<>>

ReadsWriteNothing ==
    [][(/\ last'.call.op \in {"getWalletIndex", "testPassword", "getStoredWallet"}
        /\ ~last'.crashed)
          => /\ DOMAIN localStorage' = DOMAIN localStorage
             /\ \A key \in DOMAIN localStorage : localStorage'[key] = localStorage[key]
             /\ last'.call.op = "getWalletIndex" =>
                    /\ ~last'.outcome.threw
                    /\ last'.outcome.value = StoredIndexSequence]_vars

(* getWalletIndex has returned the two entries of the index. *)
ReadsWriteNothingWitness ==
    /\ last.call.op = "getWalletIndex"
    /\ ~last.outcome.threw
    /\ Len(last.outcome.value) = 2
    /\ last.outcome.value = StoredIndexSequence
    /\ last.outcome.value[1].address # last.outcome.value[2].address

(***************************************************************************)
(* The store is not the module's own: what it holds under a wallet key can *)
(* come back changed.  CorruptCiphertext flips the last bit of the salt or *)
(* of the iv in the 64 hex characters that open the stored cipher text, as *)
(* long as fewer than MaxCorrupted entries are corrupt.                    *)
(***************************************************************************)
FlipHexDigit(text, position) ==
    LET digit == CHOOSE d \in 0..15 : HexDigit[d + 1] = SubSeq(text, position, position)
        flipped == IF digit % 2 = 0 THEN digit + 1 ELSE digit - 1
    IN  SubSeq(text, 1, position - 1) \o HexDigit[flipped + 1]
            \o SubSeq(text, position + 1, Len(text))

Pristine(transitMessage) ==
    \E random \in RandomSource :
        transitMessage.text = HexStringify(random[1]) \o HexStringify(random[2])

CorruptEntries(store) ==
    {address \in Addresses :
        /\ HasWalletEntry(store, address)
        /\ ~Pristine(loadFromStorage(store, address).wallet)}

CorruptCiphertext(address, part) ==
    /\ HasWalletEntry(localStorage, address)
    /\ Cardinality(CorruptEntries(localStorage) \cup {address}) <= MaxCorrupted
    /\ \E storedWallet \in {loadFromStorage(localStorage, address)} :
           localStorage' =
               setItem(localStorage, WalletKey(address),
                       JSONstringifyObject(
                           [storedWallet EXCEPT !.wallet =
                               Concat(FlipHexDigit(storedWallet.wallet.text,
                                                   IF part = "salt" THEN HexPrefixLen
                                                   ELSE 2 * HexPrefixLen),
                                      storedWallet.wallet.encrypted)],
                           StoredWalletKeys))
    /\ last' = [call |-> [op |-> "corrupt", address |-> address, part |-> part],
                crashed |-> FALSE, outcome |-> NoOutcome]
    /\ UNCHANGED <<written, crashes, calls>>

NextCorrupt ==
    \/ Next
    \/ \E address \in Addresses, part \in {"salt", "iv"} : CorruptCiphertext(address, part)

SpecCorrupt == Init /\ [][NextCorrupt]_vars

(***************************************************************************)
(* C12.  For an address that has a wallet entry, intact or corrupt: a      *)
(* getStoredWallet or testPassword throws exactly if decrypt throws (a     *)
(* wrong password, a corrupt salt or iv) or the decrypted text does not    *)
(* parse; whichever it is, the error is the one incorrect-password error   *)
(* of the function, the same whether the entry is corrupt or the password  *)
(* wrong, and it is not a not-found error.  For an address without wallet  *)
(* entry the error is the not-found error, which is no incorrect-password  *)
(* error.                                                                  *)
(***************************************************************************)
PasswordFailuresAlike ==
    [][(last'.call.op \in {"getStoredWallet", "testPassword"} /\ ~last'.crashed) =>
         LET address == last'.call.address
             incorrect == IF last'.call.op = "getStoredWallet"
                          THEN "Incorrect password"
                          ELSE "Password for wallet is incorrect"
         IN  IF HasWalletEntry(localStorage, address)
             THEN LET decrypted == decrypt(loadFromStorage(localStorage, address).wallet,
                                           last'.call.password)
                      failed == decrypted.threw \/ JSONparse(decrypted.value).threw
                  IN  /\ last'.outcome.threw <=> failed
                      /\ last'.outcome.threw =>
                             /\ last'.outcome.error = incorrect
                             /\ last'.outcome.error \in IncorrectPasswordErrors
                             /\ last'.outcome.error \notin NotFoundErrors
                             /\ last'.outcome.value = Undefined
             ELSE /\ last'.outcome.threw
                  /\ last'.outcome.error \in NotFoundErrors
                  /\ last'.outcome.error \notin IncorrectPasswordErrors]_vars

(* getStoredWallet with the password the wallet was stored with has       *)
(* failed with the incorrect-password error on an entry whose iv is       *)
(* corrupt: decrypt returned a text and JSON.parse rejected it.           *)
PasswordFailuresAlikeWitness ==
    /\ last.call.op = "getStoredWallet"
    /\ last.outcome.threw
    /\ last.outcome.error = "Incorrect password"
    /\ written[last.call.address].present
    /\ written[last.call.address].password = last.call.password
    /\ last.call.address \in CorruptEntries(localStorage)
    /\ ~decrypt(loadFromStorage(localStorage, last.call.address).wallet,
                last.call.password).threw

(***************************************************************************)
(* Key generation (src/cosmos-keys, known here by its tests and its        *)
(* specification).  An entropy function is modelled by the bytes it        *)
(* returns; a mnemonic by the indices of its words in the 2048-word list   *)
(* (word 0 is "abandon", word 102 is "art"), or by its text when it is not *)
(* built from entropy.  entropyToMnemonic accepts 32 bytes only, and       *)
(* splits the 256 bits of entropy, followed by the first byte of their     *)
(* SHA-256, into 24 groups of 11 bits.  Sha256FirstByte tabulates that     *)
(* byte for the 32-byte strings of EntropyPool.  The derivation of the     *)
(* wallet from the mnemonic is tabulated for the two mnemonics whose       *)
(* wallets the tests give and is a term over the mnemonic otherwise.       *)
(***************************************************************************)
SupportedEntropyBytes == 32
MnemonicWords == 24
WordBits == 11
EntropyFill == {0, 170, 255}

EntropyBytes(length, fill) == [i \in 1..length |-> fill]
EntropyPool == {EntropyBytes(length, fill) : length \in 0..MaxEntropyBytes, fill \in EntropyFill}
EntropyFunctions == {[kind |-> "function", returns |-> bytes] : bytes \in EntropyPool}

Sha256FirstByte(entropy) ==
    CASE entropy = EntropyBytes(SupportedEntropyBytes, 0) -> 102
      [] entropy = EntropyBytes(SupportedEntropyBytes, 170) -> 224
      [] entropy = EntropyBytes(SupportedEntropyBytes, 255) -> 175

EntropyBit(entropy, checksum, i) ==
    LET byte == IF i < 8 * Len(entropy) THEN entropy[(i \div 8) + 1] ELSE checksum
    IN  (byte \div (2 ^ (7 - (i % 8)))) % 2

RECURSIVE WordIndex(_, _, _, _)
WordIndex(entropy, checksum, word, bits) ==
    IF bits = 0 THEN 0
    ELSE 2 * WordIndex(entropy, checksum, word, bits - 1)
             + EntropyBit(entropy, checksum, WordBits * word + bits - 1)

entropyToMnemonic(entropy) ==
    IF Len(entropy) # SupportedEntropyBytes
    THEN Throw(<<>>, "InvalidEntropyLength")
    ELSE Return(<<>>, [words |-> [word \in 1..MnemonicWords |->
                                    WordIndex(entropy, Sha256FirstByte(entropy),
                                              word - 1, WordBits)]])

randomBytes == {[kind |-> "function", returns |-> EntropyBytes(SupportedEntropyBytes, fill)] :
                   fill \in EntropyFill}

(* randomBytesFunc is the injected entropy function, or Undefined when the *)
(* caller leaves it out; ambient is what randomBytes then gives.           *)
getSeedAnyLength(randomBytesFunc, ambient) ==
    LET entropy == (IF randomBytesFunc = Undefined THEN ambient ELSE randomBytesFunc).returns
    IN  IF Len(entropy) \notin {16, 20, 24, 28, 32}
        THEN Throw(<<>>, "InvalidEntropyLength")
        ELSE Return(<<>>, [words |-> [word \in 1..((3 * Len(entropy)) \div 4) |->
                                        WordIndex(entropy,
                                                  IF Len(entropy) = SupportedEntropyBytes
                                                  THEN Sha256FirstByte(entropy) ELSE 0,
                                                  word - 1, WordBits)]])

getSeed(randomBytesFunc, ambient) ==
    LET entropy == (IF randomBytesFunc = Undefined THEN ambient ELSE randomBytesFunc).returns
    IN  entropyToMnemonic(entropy)

ZeroEntropyMnemonic == [words |-> [word \in 1..MnemonicWords |->
                                     IF word = MnemonicWords THEN 102 ELSE 0]]
TestSeedText == [text |-> "a b c"]
Mnemonics ==
    {TestSeedText} \cup
    {entropyToMnemonic(EntropyBytes(SupportedEntropyBytes, fill)).value : fill \in EntropyFill}

getNewWalletFromSeed(mnemonic) ==
    CASE mnemonic = ZeroEntropyMnemonic -> WalletOf(1)
      [] mnemonic = TestSeedText -> WalletOf(2)
      [] OTHER -> [derivedFrom |-> mnemonic]

getNewWalletAmbient(randomBytesFunc, ambient) ==
    LET mnemonic == getSeed(Undefined, ambient)
    IN  IF mnemonic.threw THEN mnemonic
        ELSE Return(<<>>, getNewWalletFromSeed(mnemonic.value))

getNewWallet(randomBytesFunc, ambient) ==
    LET mnemonic == getSeed(randomBytesFunc, ambient)
    IN  IF mnemonic.threw THEN mnemonic
        ELSE Return(<<>>, getNewWalletFromSeed(mnemonic.value))

(***************************************************************************)
(* The calls of key generation.  Each call finds the ambient random source *)
(* in some state (ambient: what randomBytes gives if asked), whether it    *)
(* asks it or not.  A derivation also keeps the derivation called right    *)
(* before it, if there was one, so that two runs can be compared.          *)
(***************************************************************************)
DerivationOps == {"getNewWallet", "getNewWalletFromSeed"}
WalletEntropyFunctions ==
    {f \in EntropyFunctions : Len(f.returns) \in {5, SupportedEntropyBytes}} \cup {Undefined}
Previous ==
    IF last.call.op \in DerivationOps
    THEN [call |-> last.call, outcome |-> last.outcome]
    ELSE [call |-> NoCall, outcome |-> NoOutcome]

GetSeed(randomBytesFunc) ==
    \E ambient \in randomBytes :
        \E r \in {getSeed(randomBytesFunc, ambient)} :
            /\ last' = [call |-> [op |-> "getSeed", randomBytesFunc |-> randomBytesFunc,
                                  ambient |-> ambient],
                        crashed |-> FALSE, outcome |-> Outcome(r)]
            /\ UNCHANGED <<localStorage, written, crashes, calls>>

GetNewWallet(randomBytesFunc) ==
    \E ambient \in randomBytes :
        \E r \in {getNewWallet(randomBytesFunc, ambient)} :
            /\ last' = [call |-> [op |-> "getNewWallet", randomBytesFunc |-> randomBytesFunc,
                                  ambient |-> ambient],
                        crashed |-> FALSE, outcome |-> Outcome(r), before |-> Previous]
            /\ UNCHANGED <<localStorage, written, crashes, calls>>

GetNewWalletFromSeed(mnemonic) ==
    /\ last' = [call |-> [op |-> "getNewWalletFromSeed", mnemonic |-> mnemonic],
                crashed |-> FALSE,
                outcome |-> Outcome(Return(<<>>, getNewWalletFromSeed(mnemonic))),
                before |-> Previous]
    /\ UNCHANGED <<localStorage, written, crashes, calls>>

NextKeys ==
    \/ \E randomBytesFunc \in EntropyFunctions \cup {Undefined} : GetSeed(randomBytesFunc)
    \/ \E randomBytesFunc \in WalletEntropyFunctions : GetNewWallet(randomBytesFunc)
    \/ \E mnemonic \in Mnemonics : GetNewWalletFromSeed(mnemonic)

SpecKeys == Init /\ [][NextKeys]_vars

(***************************************************************************)
(* C13.  getSeed with an injected entropy function throws, and gives no    *)
(* mnemonic, whenever the function returns a byte string whose length is   *)
(* not 32; when it returns 32 bytes getSeed returns a mnemonic of 24 words *)
(* (for 32 zero bytes: "abandon" 23 times, then "art").                    *)
(***************************************************************************)
EntropyLengthChecked ==
    (last.call.op = "getSeed" /\ last.call.randomBytesFunc # Undefined) =>
        LET entropy == last.call.randomBytesFunc.returns
        IN  IF Len(entropy) # 32
            THEN /\ last.outcome.threw
                 /\ last.outcome.error = "InvalidEntropyLength"
                 /\ last.outcome.value = Undefined
            ELSE /\ ~last.outcome.threw
                 /\ Len(last.outcome.value.words) = 24
                 /\ \A word \in 1..24 : last.outcome.value.words[word] \in 0..2047
                 /\ entropy = EntropyBytes(32, 0) =>
                        last.outcome.value = ZeroEntropyMnemonic

(* getSeed has thrown for an entropy function that returns 5 zero bytes, *)
(* the case of the test.                                                 *)
EntropyLengthWitness ==
    /\ last.call.op = "getSeed"
    /\ last.call.randomBytesFunc # Undefined
    /\ last.call.randomBytesFunc.returns = EntropyBytes(5, 0)
    /\ last.outcome.threw
    /\ last.outcome.value = Undefined

NextCrashLast ==
    \/ crashes = 0 /\ Next
    \/ \E wallet \in Wallets, name \in Names, password \in Passwords :
           StoreWalletCrash(wallet, name, password)
    \/ \E address \in Addresses, password \in Passwords : RemoveWalletCrash(address, password)

SpecCrashLast == Init /\ [][NextCrashLast]_vars

(***************************************************************************)
(* Index and wallet entry of an address agree in a store: both are absent, *)
(* or the entry is there and the index lists the address once, under the   *)
(* name of the entry.  A store is consistent when that holds for every     *)
(* address and the names of the index are distinct.                        *)
(***************************************************************************)
ConsistentAt(store, address) ==
    IF HasWalletEntry(store, address)
    THEN /\ Cardinality(IndexPositions(store, address)) = 1
         /\ \A i \in IndexPositions(store, address) :
                getWalletIndex(store)[i].name = loadFromStorage(store, address).name
    ELSE IndexPositions(store, address) = {}

Consistent(store) ==
    /\ \A address \in Addresses : ConsistentAt(store, address)
    /\ \A i, j \in 1..Len(getWalletIndex(store)) :
           getWalletIndex(store)[i].name = getWalletIndex(store)[j].name => i = j

(***************************************************************************)
(* C15.  A call that crashes between its two writes in a consistent store  *)
(* has written the index key and no other key.  After a crashed            *)
(* storeWallet the index lists the address, once, and the address has no   *)
(* wallet entry; the completed call would write the wallet entry next and  *)
(* nothing else.  After a crashed removeWallet the address has its wallet  *)
(* entry and the index does not list it; the completed call would remove   *)
(* the entry next and nothing else.  Every other address still agrees with *)
(* the index, and the names of the index are still distinct.               *)
(***************************************************************************)
CrashWindow ==
    [][(last'.crashed /\ crashes' = crashes + 1 /\ Consistent(localStorage)) =>
         LET address == last'.call.address
         IN  /\ \A key \in (DOMAIN localStorage \cup DOMAIN localStorage') \ {IndexKey} :
                    getItem(localStorage', key) = getItem(localStorage, key)
             /\ getItem(localStorage', IndexKey) # getItem(localStorage, IndexKey)
             /\ last'.call.op = "storeWallet" =>
                    /\ ~HasWalletEntry(localStorage', address)
                    /\ Cardinality(IndexPositions(localStorage', address)) = 1
                    /\ getWalletIndex(localStorage') =
                           Append(getWalletIndex(localStorage),
                                  [name |-> last'.call.name, address |-> address])
                    /\ \A random \in RandomSource :
                           LET completed == storeWallet(localStorage, last'.call.wallet,
                                                        last'.call.name, last'.call.password,
                                                        random)
                           IN  /\ ~completed.threw
                               /\ HasWalletEntry(completed.store, address)
                               /\ removeItem(completed.store, WalletKey(address)) = localStorage'
             /\ last'.call.op = "removeWallet" =>
                    /\ HasWalletEntry(localStorage', address)
                    /\ IndexPositions(localStorage', address) = {}
                    /\ LET completed == removeWallet(localStorage, address, last'.call.password)
                       IN  /\ ~completed.threw
                           /\ completed.store = removeItem(localStorage', WalletKey(address))
             /\ \A other \in Addresses \ {address} : ConsistentAt(localStorage', other)
             /\ \A i, j \in 1..Len(getWalletIndex(localStorage')) :
                    getWalletIndex(localStorage')[i].name = getWalletIndex(localStorage')[j].name
                        => i = j]_vars

(* A removeWallet has crashed: its wallet entry is there, the index does *)
(* not list it, and the other wallet is stored and listed.               *)
CrashWindowWitness ==
    /\ last.crashed
    /\ crashes = 1
    /\ last.call.op = "removeWallet"
    /\ HasWalletEntry(localStorage, last.call.address)
    /\ IndexPositions(localStorage, last.call.address) = {}
    /\ \E other \in Addresses \ {last.call.address} :
           HasWalletEntry(localStorage, other) /\ ConsistentAt(localStorage, other)

(***************************************************************************)
(* C16.  In every state of a run in which calls may crash between their    *)
(* two writes and further storeWallet and removeWallet calls follow, no    *)
(* two entries of the index have the same address.  The code does not keep *)
(* this: storeWallet looks for the wallet entry of the address (line 37)   *)
(* and addToIndex for the name (line 111); neither looks for the address   *)
(* in the index, so a storeWallet that follows a crashed storeWallet for   *)
(* the same address, under another name, lists the address a second time.  *)
(***************************************************************************)
IndexAddressesUnique ==
    \A i, j \in 1..Len(getWalletIndex(localStorage)) :
        getWalletIndex(localStorage)[i].address = getWalletIndex(localStorage)[j].address
            => i = j

(* A completed storeWallet has left the index with two entries for its *)
(* address.                                                            *)
AddressListedTwice ==
    /\ last.call.op = "storeWallet"
    /\ ~last.crashed
    /\ ~last.outcome.threw
    /\ Cardinality(IndexPositions(localStorage, last.call.address)) = 2
    /\ HasWalletEntry(localStorage, last.call.address)

(***************************************************************************)
(* Calls of several callers that interleave.  localStorage gives atomic    *)
(* getItem, setItem and removeItem on one key; a call is the sequence of   *)
(* its accesses, and between two of them the accesses of other callers'    *)
(* calls may take place.  A caller's view is what its call has read last.  *)
(* What a call does with what it read is computed by the function of the   *)
(* code on that view:                                                      *)
(*   storeWallet:  getItem(wallet key) [loadFromStorage, line 81];         *)
(*                 getItem(index key) [addToIndex -> getWalletIndex, 76];  *)
(*                 setItem(index key) [116]; setItem(wallet key) [98].     *)
(*   removeWallet: getItem(wallet key) [loadFromStorage, line 81, called   *)
(*                 at 48]; getItem(wallet key) [testPassword, line 60];    *)
(*                 getItem(index key) [removeFromIndex, 120];              *)
(*                 setItem(index key) [123]; removeItem(wallet key) [104]. *)
(* A call may stop between its two writes (a crash).  Every caller makes   *)
(* at most MaxCallsPerCaller calls, one after the other, and keeps the     *)
(* record of its last call until it begins the next.  The callers use one  *)
(* password: a removeWallet with another one stops in testPassword, before *)
(* it reads or writes the index.                                           *)
(***************************************************************************)
RacePasswords == {"1234567890"}

ViewOf(store, key) ==
    IF getItem(store, key) = Null THEN <<>> ELSE setItem(<<>>, key, getItem(store, key))

Finish(c, r, crashed) ==
    calls' = [calls EXCEPT ![c] = [pc |-> "idle", call |-> calls[c].call, view |-> calls[c].view,
                                   crashed |-> crashed, outcome |-> Outcome(r),
                                   made |-> calls[c].made]]

Goto(c, pc, view) ==
    calls' = [calls EXCEPT ![c] = [pc |-> pc, call |-> calls[c].call, view |-> view,
                                   crashed |-> FALSE, outcome |-> NoOutcome,
                                   made |-> calls[c].made]]

BeginStoreWallet(c, wallet, name, password) ==
    /\ calls[c].pc = "idle"
    /\ calls[c].made < MaxCallsPerCaller
    /\ calls' = [calls EXCEPT ![c] =
                    [pc |-> "loadFromStorage",
                     call |-> [op |-> "storeWallet", wallet |-> wallet,
                               address |-> wallet.cosmosAddress, name |-> name,
                               password |-> password],
                     view |-> <<>>, crashed |-> FALSE, outcome |-> NoOutcome,
                     made |-> calls[c].made + 1]]
    /\ UNCHANGED <<localStorage, last, written, crashes>>

BeginRemoveWallet(c, address, password) ==
    /\ calls[c].pc = "idle"
    /\ calls[c].made < MaxCallsPerCaller
    /\ calls' = [calls EXCEPT ![c] =
                    [pc |-> "loadFromStorage",
                     call |-> [op |-> "removeWallet", address |-> address, password |-> password],
                     view |-> <<>>, crashed |-> FALSE, outcome |-> NoOutcome,
                     made |-> calls[c].made + 1]]
    /\ UNCHANGED <<localStorage, last, written, crashes>>

LoadFromStorage(c) ==
    /\ calls[c].pc = "loadFromStorage"
    /\ \E view \in {ViewOf(localStorage, WalletKey(calls[c].call.address))} :
           IF calls[c].call.op = "storeWallet"
           THEN IF Truthy(loadFromStorage(view, calls[c].call.address))
                THEN \E random \in RandomSource :
                         Finish(c, storeWallet(view, calls[c].call.wallet, calls[c].call.name,
                                               calls[c].call.password, random), FALSE)
                ELSE Goto(c, "getWalletIndex", view)
           ELSE IF ~Truthy(loadFromStorage(view, calls[c].call.address))
                THEN Finish(c, removeWallet(view, calls[c].call.address, calls[c].call.password),
                            FALSE)
                ELSE Goto(c, "testPassword", view)
    /\ UNCHANGED <<localStorage, last, written, crashes>>

TestPasswordStep(c) ==
    /\ calls[c].pc = "testPassword"
    /\ \E view \in {ViewOf(localStorage, WalletKey(calls[c].call.address))} :
           IF testPassword(view, calls[c].call.address, calls[c].call.password).threw
           THEN Finish(c, testPassword(view, calls[c].call.address, calls[c].call.password),
                       FALSE)
           ELSE Goto(c, "getWalletIndex", view)
    /\ UNCHANGED <<localStorage, last, written, crashes>>

ReadIndex(c) ==
    /\ calls[c].pc = "getWalletIndex"
    /\ \E view \in {ViewOf(localStorage, IndexKey)} :
           IF /\ calls[c].call.op = "storeWallet"
              /\ addToIndex(view, calls[c].call.name, calls[c].call.address).threw
           THEN Finish(c, addToIndex(view, calls[c].call.name, calls[c].call.address), FALSE)
           ELSE Goto(c, "setIndex", view)
    /\ UNCHANGED <<localStorage, last, written, crashes>>

IndexToWrite(c) ==
    IF calls[c].call.op = "storeWallet"
    THEN addToIndex(calls[c].view, calls[c].call.name, calls[c].call.address).store[IndexKey]
    ELSE removeFromIndex(calls[c].view, calls[c].call.address).store[IndexKey]

(***************************************************************************)
(* A write of the index that reads the index again and applies the call's  *)
(* change to what it finds then, not to what the call read before.         *)
(***************************************************************************)
WriteIndexMerging(c) ==
    /\ calls[c].pc = "setIndex"
    /\ localStorage' =
           IF calls[c].call.op = "storeWallet"
           THEN setItem(localStorage, IndexKey,
                        JSONstringifyArray(
                            Append(getWalletIndex(localStorage),
                                   [name |-> calls[c].call.name,
                                    address |-> calls[c].call.address]),
                            IndexEntryKeys))
           ELSE removeFromIndex(localStorage, calls[c].call.address).store
    /\ Goto(c, "secondWrite", calls[c].view)
    /\ UNCHANGED <<last, written, crashes>>

WriteIndex(c) ==
    /\ calls[c].pc = "setIndex"
    /\ localStorage' = setItem(localStorage, IndexKey, IndexToWrite(c))
    /\ Goto(c, "secondWrite", calls[c].view)
    /\ UNCHANGED <<last, written, crashes>>

SecondWrite(c) ==
    /\ calls[c].pc = "secondWrite"
    /\ IF calls[c].call.op = "storeWallet"
       THEN \E random \in RandomSource :
               localStorage' =
                   setItem(localStorage, WalletKey(calls[c].call.address),
                           addToStorage(calls[c].view, calls[c].call.name, calls[c].call.address,
                                        encrypt(JSONstringifyObject(calls[c].call.wallet,
                                                                    WalletKeys),
                                                calls[c].call.password, random)
                                       ).store[WalletKey(calls[c].call.address)])
       ELSE localStorage' = removeItem(localStorage, WalletKey(calls[c].call.address))
    /\ Finish(c, Return(<<>>, Undefined), FALSE)
    /\ UNCHANGED <<last, written, crashes>>

CrashBetweenWrites(c) ==
    /\ calls[c].pc = "secondWrite"
    /\ crashes < MaxCrashes
    /\ crashes' = crashes + 1
    /\ Finish(c, Return(<<>>, Undefined), TRUE)
    /\ UNCHANGED <<localStorage, last, written>>

NextRace ==
    \/ \E c \in Callers, wallet \in Wallets, name \in Names, password \in RacePasswords :
           BeginStoreWallet(c, wallet, name, password)
    \/ \E c \in Callers, address \in Addresses, password \in RacePasswords :
           BeginRemoveWallet(c, address, password)
    \/ \E c \in Callers : LoadFromStorage(c)
    \/ \E c \in Callers : TestPasswordStep(c)
    \/ \E c \in Callers : ReadIndex(c)
    \/ \E c \in Callers : WriteIndex(c)
    \/ \E c \in Callers : SecondWrite(c)
    \/ \E c \in Callers : CrashBetweenWrites(c)

SpecRace == Init /\ [][NextRace]_vars

(***************************************************************************)
(* What the claims about interleaved calls speak of: caller c's last call  *)
(* was a storeWallet that returned; the index entry such a call adds;      *)
(* whether the index of a store lists an entry.                            *)
(***************************************************************************)
StoredBy(c) ==
    /\ calls[c].pc = "idle"
    /\ calls[c].call.op = "storeWallet"
    /\ ~calls[c].crashed
    /\ ~calls[c].outcome.threw
EntryOf(c) == [name |-> calls[c].call.name, address |-> calls[c].call.address]
Listed(store, entry) ==
    \E i \in 1..Len(getWalletIndex(store)) : getWalletIndex(store)[i] = entry

(***************************************************************************)
(* C17.  When storeWallet and removeWallet calls of several callers        *)
(* interleave at the granularity of single-key reads and writes, and may   *)
(* crash between their two writes, every value written to the index key   *)
(* has pairwise distinct names: a step that changes the value of the index *)
(* key leaves an index in which no two entries have the same name.         *)
(***************************************************************************)
WrittenIndexNamesUnique ==
    [][getItem(localStorage', IndexKey) # getItem(localStorage, IndexKey)
       => \A i, j \in 1..Len(getWalletIndex(localStorage')) :
              getWalletIndex(localStorage')[i].name = getWalletIndex(localStorage')[j].name
              => i = j]_vars

(***************************************************************************)
(* Two storeWallet calls with the same name for different addresses both   *)
(* passed the name check, wrote the index and returned; a call crashed on  *)
(* the way.                                                                *)
(***************************************************************************)
RaceOnNameWitness ==
    \E c1, c2 \in Callers :
        /\ c1 # c2
        /\ StoredBy(c1)
        /\ StoredBy(c2)
        /\ calls[c1].call.name = calls[c2].call.name
        /\ calls[c1].call.address # calls[c2].call.address
        /\ crashes > 0

(***************************************************************************)
(* C18.  Two storeWallet calls for different addresses and names that      *)
(* interleave can both return while the index holds only one of their two  *)
(* entries.  Whenever the last calls of two callers are storeWallet calls  *)
(* for different addresses and names that returned, neither of which had   *)
(* the other's entry in the index it read, and no other caller has made a  *)
(* call, the index lists exactly one of the two entries; and when both     *)
(* wallet entries are stored, one of them is a stored wallet the index     *)
(* does not list.  (LostUpdateWitness is the state the claim says can be   *)
(* reached.)                                                               *)
(***************************************************************************)
InterleavedStores(c1, c2) ==
    /\ c1 # c2
    /\ StoredBy(c1)
    /\ StoredBy(c2)
    /\ calls[c1].call.address # calls[c2].call.address
    /\ calls[c1].call.name # calls[c2].call.name
    /\ ~Listed(calls[c1].view, EntryOf(c2))
    /\ ~Listed(calls[c2].view, EntryOf(c1))
    /\ \A c3 \in Callers \ {c1, c2} : calls[c3] = Idle

LostUpdate ==
    \A c1, c2 \in Callers :
        InterleavedStores(c1, c2)
        => /\ Listed(localStorage, EntryOf(c1)) # Listed(localStorage, EntryOf(c2))
           /\ (/\ HasWalletEntry(localStorage, calls[c1].call.address)
               /\ HasWalletEntry(localStorage, calls[c2].call.address))
              => \E c \in {c1, c2} :
                     IndexPositions(localStorage, calls[c].call.address) = {}

(***************************************************************************)
(* Without any crash, two storeWallet calls that both read the index       *)
(* before it was ever written have returned, both wallets are stored and   *)
(* the index has one entry.                                                *)
(***************************************************************************)
LostUpdateWitness ==
    \E c1, c2 \in Callers :
        /\ InterleavedStores(c1, c2)
        /\ getItem(calls[c1].view, IndexKey) = Null
        /\ getItem(calls[c2].view, IndexKey) = Null
        /\ crashes = 0
        /\ HasWalletEntry(localStorage, calls[c1].call.address)
        /\ HasWalletEntry(localStorage, calls[c2].call.address)
        /\ Len(getWalletIndex(localStorage)) = 1

(***************************************************************************)
(* encrypt and decrypt on their own: encrypt is applied to a message, a    *)
(* password and what the random source gives for the salt and for the iv   *)
(* (drawn one independently of the other), and decrypt to the transit      *)
(* message it returned, with the same password.  The record of the decrypt *)
(* call keeps the message, salt and iv of the encrypt call it follows.     *)
(***************************************************************************)
CipherMessages ==
    {JSONstringifyObject(wallet, WalletKeys) : wallet \in Wallets}
        \cup {[kind |-> "text", chars |-> ""], [kind |-> "text", chars |-> "a b c"]}
CipherRandom ==
    {<<WordArrayRandom(saltSeed, 0), WordArrayRandom(ivSeed, 1)>> :
        saltSeed \in 1..NumSeeds, ivSeed \in 1..NumSeeds}

Encrypt(message, password, random) ==
    /\ last' = [call |-> [op |-> "encrypt", message |-> message, password |-> password,
                          random |-> random],
                crashed |-> FALSE,
                outcome |-> Outcome(Return(<<>>, encrypt(message, password, random)))]
    /\ UNCHANGED <<localStorage, written, crashes, calls>>

Decrypt ==
    /\ last.call.op = "encrypt"
    /\ last' = [call |-> [op |-> "decrypt", transitMessage |-> last.outcome.value,
                          password |-> last.call.password, message |-> last.call.message,
                          random |-> last.call.random],
                crashed |-> FALSE,
                outcome |-> Outcome(decrypt(last.outcome.value, last.call.password))]
    /\ UNCHANGED <<localStorage, written, crashes, calls>>

NextCipher ==
    \/ \E message \in CipherMessages, password \in Passwords, random \in CipherRandom :
           Encrypt(message, password, random)
    \/ Decrypt

SpecCipher == Init /\ [][NextCipher]_vars

(***************************************************************************)
(* C19.  Layout of the cipher text and round trip.  For every message,     *)
(* password, 16-byte salt and 16-byte iv: what encrypt returns is the 32   *)
(* characters of hex(salt), then the 32 characters of hex(iv), then the    *)
(* cipher text of the message under the key derived from password and      *)
(* salt; decrypt of it with the same password reads that salt from         *)
(* characters 0..31, that iv from characters 32..63 and the cipher text    *)
(* from character 64 on, derives the key the cipher text was made with,    *)
(* and returns the message.                                                *)
(***************************************************************************)
CiphertextLayout ==
    /\ last.call.op = "encrypt"
       => /\ Len(last.call.random[1]) = 16
          /\ Len(last.call.random[2]) = 16
          /\ Len(HexStringify(last.call.random[1])) = 32
          /\ Len(HexStringify(last.call.random[2])) = 32
          /\ substr(last.outcome.value, 0, 32) = HexStringify(last.call.random[1])
          /\ substr(last.outcome.value, 32, 32) = HexStringify(last.call.random[2])
          /\ substring(last.outcome.value, 64)
                 = Concat("", AESencrypt(last.call.message,
                                         PBKDF2(last.call.password, last.call.random[1]),
                                         last.call.random[2]))
    /\ last.call.op = "decrypt"
       => /\ HexParse(substr(last.call.transitMessage, 0, 32)) = last.call.random[1]
          /\ HexParse(substr(last.call.transitMessage, 32, 32)) = last.call.random[2]
          /\ PBKDF2(last.call.password, HexParse(substr(last.call.transitMessage, 0, 32)))
                 = substring(last.call.transitMessage, 64).encrypted.key
          /\ ~last.outcome.threw
          /\ last.outcome.value = last.call.message

(***************************************************************************)
(* The serialized first wallet came back from decrypt, encrypted with a    *)
(* salt and an iv of different seeds.                                      *)
(***************************************************************************)
CiphertextLayoutWitness ==
    /\ last.call.op = "decrypt"
    /\ ~last.outcome.threw
    /\ last.outcome.value = JSONstringifyObject(WalletOf(1), WalletKeys)
    /\ last.call.password = "hunter215500"
    /\ last.call.random = <<WordArrayRandom(2, 0), WordArrayRandom(3, 1)>>

=============================================================================
